---- MODULE Spec2Model ----
(***************************************************************************)
(* Order / payment / chat workflow of the supplement store.                *)
(*                                                                         *)
(* The persistent store is the Postgres schema of the database setup       *)
(* script; the operations are the checkout route, the Stripe webhook       *)
(* route, the admin orders and products pages, the product list and cart   *)
(* pages, the login and register routes, the chat route and the two chat   *)
(* pages.                                                                  *)
(*                                                                         *)
(* Money values are whole cents: products.price, orders.total_amount,      *)
(* order_items.unit_price and payments.amount are DECIMAL(10,2) columns,   *)
(* and Stripe's unit_amount / amount_total are cents already               *)
(* (Math.round(price * 100) and amount_total / 100 convert between the     *)
(* two).  A JavaScript value that is falsy in `x || d` (0, undefined) is   *)
(* written 0 for numbers and Undefined for ids.                            *)
(***************************************************************************)
EXTENDS Integers, Sequences, FiniteSets, TLC

\* ------------------------------------------------------------------ bounds
\* longest cart a checkout request carries
MaxCart == 2
\* orders created in the checkout-only specification
MaxCheckouts == 2
\* orders created in the specification of the whole workflow
MaxOrders == 1

\* ------------------------------------------------------------ store rows
Undefined == "undefined"

\* ids of the rows of users and products the requests may refer to
UserIds == {"u1"}
ProductIds == {"p1", "p2"}

\* the catalogue the store starts with: two active products as the
\* add-product page creates them (price > 0, stock_quantity >= 0)
InitialProducts ==
    [p \in ProductIds |->
        IF p = "p1" THEN [price |-> 1999, stock_quantity |-> 1, is_active |-> TRUE]
        ELSE [price |-> 2499, stock_quantity |-> 2, is_active |-> TRUE]]

\* the user_status enum
user_status == {"pending", "approved", "rejected"}

\* hash_password(input_password): crypt under a blowfish salt
hash_password(input_password) == <<"bf", input_password>>

\* the users the store starts with: the seeded admin, and the customer
\* whose id is in UserIds, registered and approved
InitialUsers ==
    <<[email |-> "admin@supplementstore.com", password_hash |-> hash_password("Admin123!"),
       role |-> "admin", status |-> "approved"],
      [email |-> "u1@example.com", password_hash |-> hash_password("pw"),
       role |-> "customer", status |-> "approved"]>>

\* the order_status enum
order_status == {"pending", "processing", "shipped", "delivered", "cancelled"}

VARIABLES
    orders,       \* table orders: row id = index
    order_items,  \* table order_items, in insertion order
    payments,     \* table payments: row id = index
    sessions,     \* Stripe Checkout Sessions created by the checkout route
    adminOrders,  \* per admin session: the `orders` state of the AdminOrders page
    firstDelivery,\* per session whose event was handled: order status after the first time
    products,     \* table products: product id -> row, for the rows that exist
    cart,         \* the customer's cart (localStorage 'cart')
    users,        \* table users: row id = index
    registering,  \* requests to the register route between their lookup and their insert
    chat_messages,\* table chat_messages: row id = index
    adminChat,    \* state of the admin messages page and its realtime channels
    customerChat, \* state of the customer messages page and its realtime channels
    last          \* the request handled last, its response, the tables before it

\* the product list / cart pages and the admin products page work on these
catalogVars == <<products, cart>>

\* the login and register routes work on these
authVars == <<users, registering>>

\* the chat route and the two messages pages work on these
chatVars == <<chat_messages, adminChat, customerChat>>

\* what the order workflow leaves alone, and what the shop leaves alone
outsideOrders == <<catalogVars, authVars, chatVars>>
outsideShop == <<authVars, chatVars>>

vars == <<orders, order_items, payments, sessions, adminOrders, firstDelivery,
          catalogVars, authVars, chatVars, last>>

\* the tables as they are now, kept in `last` by the next request
Tables ==
    [orders |-> orders, order_items |-> order_items, payments |-> payments,
     products |-> products, users |-> users, chat_messages |-> chat_messages]

\* ------------------------------------------------------- JavaScript bits
\* x || d on numbers
OrElse(x, d) == IF x = 0 THEN d ELSE x

RECURSIVE SumOver(_, _)
\* Array.prototype.reduce((sum, r) => sum + r, 0) over a sequence of numbers
SumOver(s, n) == IF n = 0 THEN 0 ELSE SumOver(s, n - 1) + s[n]

\* --------------------------------------------------- schema constraints
\* orders: customer_id REFERENCES users, CHECK (total_amount > 0), status enum
OrdersInsertOk(row) ==
    /\ row.customer_id \in UserIds
    /\ row.total_amount > 0
    /\ row.status \in order_status

\* order_items: order_id REFERENCES orders, product_id NOT NULL REFERENCES
\* products, CHECK (quantity > 0), CHECK (unit_price > 0).  One INSERT of
\* several rows is one statement: all rows or none.
OrderItemsInsertOk(rows, ords) ==
    \A i \in DOMAIN rows :
        /\ rows[i].order_id \in DOMAIN ords
        /\ rows[i].product_id \in DOMAIN products
        /\ rows[i].quantity > 0
        /\ rows[i].unit_price > 0

\* ------------------------------------------------------------- checkout
\* the total as the sum of the prices, the quantities left out
totalAmountNoQuantity(cartItems) ==
    SumOver([i \in DOMAIN cartItems |-> OrElse(cartItems[i].product.price, 0)],
            Len(cartItems))

\* const totalAmount = cartItems.reduce(...)
totalAmount(cartItems) ==
    SumOver([i \in DOMAIN cartItems |->
                OrElse(cartItems[i].product.price, 0) * OrElse(cartItems[i].quantity, 1)],
            Len(cartItems))

\* const itemsPayload = cartItems.map(...)
itemsPayload(cartItems, orderId) ==
    [i \in DOMAIN cartItems |->
        [order_id |-> orderId,
         product_id |-> cartItems[i].product.id,
         quantity |-> OrElse(cartItems[i].quantity, 1),
         unit_price |-> OrElse(cartItems[i].product.price, 0)]]

\* Stripe: amount_total of the session = sum of unit_amount * quantity
amount_total(cartItems) ==
    SumOver([i \in DOMAIN cartItems |->
                OrElse(cartItems[i].product.price, 0) * OrElse(cartItems[i].quantity, 1)],
            Len(cartItems))

\* a cart line the claims call valid: product id, positive price and quantity
ValidItem(item) ==
    /\ item.product.id \in ProductIds
    /\ item.product.price > 0
    /\ item.quantity > 0

\* of a request to the checkout route: the size of the cart, whether its
\* lines are valid, and the user whose browser sent it (the route reads no
\* session)
CheckoutReq(caller, cartItems) ==
    [n |-> Len(cartItems),
     valid |-> \A i \in DOMAIN cartItems : ValidItem(cartItems[i]),
     caller |-> caller]

\* POST /api/checkout.  `fault` is the call that fails for a reason outside
\* the request (store or Stripe unavailable), "none" when every call gets
\* through to the constraints.  `caller` sent the request.
CheckoutPOST(caller, cartItems, userId, fault) ==
    LET orderRow == [customer_id |-> userId, status |-> "pending",
                     total_amount |-> totalAmount(cartItems)]
        orderId == Len(orders) + 1
        orderError == fault = "orders" \/ ~OrdersInsertOk(orderRow)
        orders1 == Append(orders, orderRow)
        payload == itemsPayload(cartItems, orderId)
        itemsError == fault = "order_items" \/ ~OrderItemsInsertOk(payload, orders1)
        respond(st, body) ==
            /\ last' = [op |-> "checkout", status |-> st, body |-> body,
                        req |-> CheckoutReq(caller, cartItems), errors |-> {},
                        pre |-> Tables]
            /\ UNCHANGED <<adminOrders, firstDelivery, outsideOrders>>
    IN
    IF Len(cartItems) = 0 THEN
        /\ respond(400, "Cart is empty")
        /\ UNCHANGED <<orders, order_items, payments, sessions>>
    ELSE IF userId = Undefined THEN
        /\ respond(400, "Missing userId")
        /\ UNCHANGED <<orders, order_items, payments, sessions>>
    ELSE IF orderError THEN
        /\ respond(500, "Failed to create order")
        /\ UNCHANGED <<orders, order_items, payments, sessions>>
    ELSE IF itemsError THEN
        /\ orders' = orders1
        /\ respond(500, "Failed to create order items")
        /\ UNCHANGED <<order_items, payments, sessions>>
    ELSE IF fault = "stripe" THEN
        /\ orders' = orders1
        /\ order_items' = order_items \o payload
        /\ respond(500, "Checkout error")
        /\ UNCHANGED <<payments, sessions>>
    ELSE
        /\ orders' = orders1
        /\ order_items' = order_items \o payload
        /\ sessions' = Append(sessions,
                [order_id |-> orderId, amount_total |-> amount_total(cartItems),
                 payment_status |-> "open"])
        /\ respond(200, "session")
        /\ UNCHANGED payments

\* ---------------------------------------------------------------- Stripe
NoIntent == <<>>

\* the customer completes the hosted payment page of session s; Stripe then
\* emits checkout.session.completed, payment_status 'paid' or (delayed
\* payment methods) 'unpaid'
StripeComplete(s, payment_status) ==
    /\ sessions[s].payment_status = "open"
    /\ sessions' = [sessions EXCEPT ![s].payment_status = payment_status]
    /\ UNCHANGED <<orders, order_items, payments, adminOrders, firstDelivery, last>>
    /\ UNCHANGED outsideOrders

\* the checkout.session.completed event of a completed session: its
\* metadata.order_id is the one the checkout route put there
SessionEvent(s) ==
    [type |-> "checkout.session.completed",
     id |-> <<"cs", s>>,
     order_id |-> sessions[s].order_id,
     amount_total |-> sessions[s].amount_total,
     payment_status |-> sessions[s].payment_status,
     payment_intent |-> <<"pi", s>>]

\* events of the same Stripe account that no checkout of this store caused:
\* a session without metadata.order_id (0), one whose order id is no row of
\* orders (-1), and an event of another type
NoOrderEvent ==
    [type |-> "checkout.session.completed", id |-> <<"cs", 0>>, order_id |-> 0,
     amount_total |-> 1999, payment_status |-> "paid", payment_intent |-> <<"pi", 0>>]
UnknownOrderEvent ==
    [type |-> "checkout.session.completed", id |-> <<"cs", 0>>, order_id |-> -1,
     amount_total |-> 1999, payment_status |-> "paid", payment_intent |-> NoIntent]
OtherTypeEvent ==
    [type |-> "payment_intent.succeeded", id |-> <<"pi", 0>>, order_id |-> -1,
     amount_total |-> 1999, payment_status |-> "paid", payment_intent |-> NoIntent]
ForeignEvents == {NoOrderEvent, UnknownOrderEvent, OtherTypeEvent}

\* what Stripe signs and sends, any number of times and in any order
SignedEvents ==
    {SessionEvent(s) : s \in {t \in DOMAIN sessions : sessions[t].payment_status # "open"}}
        \cup ForeignEvents

\* bodies a third party may post: it can name any order of the store
ForgedEvents ==
    {[type |-> "checkout.session.completed", id |-> <<"cs", 0>>, order_id |-> oid,
      amount_total |-> 1999, payment_status |-> "paid", payment_intent |-> NoIntent] :
        oid \in DOMAIN orders \cup {-1}}

\* the webhook signing secret (env.stripe.webhookSecret) and the scheme of
\* the stripe-signature header: a MAC of the raw body under a secret
endpointSecret == "whsec"
Sign(rawBody, secret) == [secret |-> secret, body |-> rawBody]

\* headers of a delivery Stripe did not sign: none (the handler reads ''),
\* a MAC under another secret, Stripe's MAC of another body
BadSignatures(event) ==
    {Sign(event, ""), Sign(event, "guess"), Sign(NoOrderEvent, endpointSecret)}

Deliveries ==
    {[event |-> e, sig |-> Sign(e, endpointSecret)] : e \in SignedEvents}
    \cup
    UNION {[event : {e}, sig : BadSignatures(e)] :
              e \in {SessionEvent(s) : s \in DOMAIN sessions} \cup ForgedEvents}

\* --------------------------------------------------------------- webhook
\* payments without the UNIQUE constraint on transaction_id
PaymentsInsertNoUnique(row, ords, pays) ==
    /\ row.order_id \in DOMAIN ords
    /\ row.amount > 0

\* payments without the foreign key on order_id
PaymentsInsertNoForeignKey(row, ords, pays) ==
    /\ row.amount > 0
    /\ \A i \in DOMAIN pays : pays[i].transaction_id # row.transaction_id

\* payments: order_id REFERENCES orders, CHECK (amount > 0), transaction_id UNIQUE
PaymentsInsertOk(row, ords, pays) ==
    /\ row.order_id \in DOMAIN ords
    /\ row.amount > 0
    /\ \A i \in DOMAIN pays : pays[i].transaction_id # row.transaction_id

\* an event construction that verifies nothing
constructEventUnverified(delivery) == TRUE

\* stripe.webhooks.constructEvent(rawBody, sig, endpointSecret) does not throw
constructEvent(delivery) == delivery.sig = Sign(delivery.event, endpointSecret)

\* paymentIntentId || session.id
transaction_id(session) ==
    IF session.payment_intent # NoIntent THEN session.payment_intent ELSE session.id

\* the session index of an event of this store's checkout, 0 otherwise
SessionOf(event) ==
    IF event.id[1] = "cs" /\ event.id[2] \in DOMAIN sessions THEN event.id[2] ELSE 0

\* POST /api/webhooks/stripe.  `faults` are the store calls that return an
\* error for a reason outside the request.
WebhookPOST(delivery, faults) ==
    LET event == delivery.event
        session == event
        orderId == session.order_id
        s == SessionOf(event)
        handled == constructEvent(delivery) /\ event.type = "checkout.session.completed"
                   /\ orderId # 0
        updateError == "orders" \in faults
        orders1 == IF ~updateError /\ orderId \in DOMAIN orders
                   THEN [orders EXCEPT ![orderId].status = "processing"]
                   ELSE orders
        row == [order_id |-> orderId,
                amount |-> OrElse(session.amount_total, 0),
                status |-> IF session.payment_status = "paid" THEN "completed" ELSE "pending",
                payment_method |-> "stripe",
                transaction_id |-> transaction_id(session)]
        insertError == "payments" \in faults \/ ~PaymentsInsertOk(row, orders1, payments)
        respond(st, body, errs) ==
            /\ last' = [op |-> "webhook", status |-> st, body |-> body,
                        req |-> [event |-> event, sig |-> delivery.sig,
                                 redelivery |-> \E d \in firstDelivery : d.session = s],
                        errors |-> errs, pre |-> Tables]
            /\ UNCHANGED <<order_items, sessions, adminOrders, outsideOrders>>
    IN
    IF ~constructEvent(delivery) THEN
        /\ respond(400, "Invalid signature", {})
        /\ UNCHANGED <<orders, payments, firstDelivery>>
    ELSE IF handled THEN
        /\ orders' = orders1
        /\ payments' = IF insertError THEN payments ELSE Append(payments, row)
        /\ firstDelivery' =
              IF s # 0 /\ ~\E d \in firstDelivery : d.session = s
              THEN firstDelivery \cup {[session |-> s, status |-> orders1[orderId].status]}
              ELSE firstDelivery
        /\ respond(200, "received", faults)
    ELSE
        /\ respond(200, "received", {})
        /\ UNCHANGED <<orders, payments, firstDelivery>>

\* ----------------------------------------------------------- admin orders
Admins == {"a1", "a2"}

\* the button the orders table renders for a row in local status st
ButtonTarget(st) ==
    CASE st = "pending" -> "processing"
      [] st = "processing" -> "shipped"
      [] st = "shipped" -> "delivered"
      [] OTHER -> "none"

\* fetchOrders of admin session a: the page state becomes the rows of
\* orders whose customer and items reads succeeded (`unread`: those that
\* did not); a failed orders read leaves the page state alone
fetchOrders(a, ordersError, unread) ==
    /\ adminOrders' =
          IF ordersError THEN adminOrders
          ELSE [adminOrders EXCEPT ![a] =
                  [o \in DOMAIN orders \ unread |-> orders[o].status]]
    /\ UNCHANGED <<orders, order_items, payments, sessions, firstDelivery, last>>
    /\ UNCHANGED outsideOrders

\* updateOrderStatus(orderId, newStatus) of admin session a
updateOrderStatus(a, orderId, newStatus, error) ==
    /\ IF error
       THEN UNCHANGED <<orders, adminOrders>>
       ELSE /\ orders' = [orders EXCEPT ![orderId].status = newStatus]
            /\ adminOrders' = [adminOrders EXCEPT ![a] =
                  [o \in DOMAIN @ |-> IF o = orderId THEN newStatus ELSE @[o]]]
    /\ last' = [op |-> "updateOrderStatus", status |-> 0,
                body |-> IF error THEN "alert" ELSE "updated",
                req |-> [admin |-> a, orderId |-> orderId, newStatus |-> newStatus],
                errors |-> IF error THEN {"orders"} ELSE {}, pre |-> Tables]
    /\ UNCHANGED <<order_items, payments, sessions, firstDelivery, outsideOrders>>

\* a click on the status button of row orderId in admin session a
ClickStatusButton(a, orderId, error) ==
    /\ orderId \in DOMAIN adminOrders[a]
    /\ ButtonTarget(adminOrders[a][orderId]) # "none"
    /\ updateOrderStatus(a, orderId, ButtonTarget(adminOrders[a][orderId]), error)

\* ------------------------------------------- product list and cart pages
\* largest quantity of one cart line
MaxQuantity == 2

\* the customer who shops (AuthContext user), an approved user
Shopper == "u1"

\* the cart line the product list page makes of a row of products: the
\* whole row is copied into the cart; the checkout route reads id and price
CartLine(p) == [product |-> [id |-> p, price |-> products[p].price], quantity |-> 1]

\* what a page of the shop writes into `last`
PageDid(op, req) ==
    last' = [op |-> op, status |-> 0, body |-> "", req |-> req, errors |-> {},
             pre |-> Tables]

\* an addToCart that appends a line whatever the cart holds
addToCartAppends(p) ==
    /\ p \in DOMAIN products
    /\ products[p].is_active
    /\ products[p].stock_quantity # 0
    /\ cart' = Append(cart, CartLine(p))
    /\ PageDid("addToCart", p)
    /\ UNCHANGED <<orders, order_items, payments, sessions, adminOrders, firstDelivery,
                   products, outsideShop>>

\* addToCart(product) for a row the list shows (fetched with is_active =
\* true; the button is disabled at stock_quantity 0)
addToCart(p) ==
    /\ p \in DOMAIN products
    /\ products[p].is_active
    /\ products[p].stock_quantity # 0
    /\ cart' =
          IF \E i \in DOMAIN cart : cart[i].product.id = p
          THEN [i \in DOMAIN cart |->
                  IF cart[i].product.id = p
                  THEN [cart[i] EXCEPT !.quantity = @ + 1] ELSE cart[i]]
          ELSE Append(cart, CartLine(p))
    /\ PageDid("addToCart", p)
    /\ UNCHANGED <<orders, order_items, payments, sessions, adminOrders, firstDelivery,
                   products, outsideShop>>

\* updateQuantity(productId, newQuantity) of the cart page; it returns at
\* once for a quantity below 1
updateQuantity(productId, newQuantity) ==
    /\ cart' = IF newQuantity < 1 THEN cart
               ELSE [i \in DOMAIN cart |->
                        IF cart[i].product.id = productId
                        THEN [cart[i] EXCEPT !.quantity = newQuantity] ELSE cart[i]]
    /\ PageDid("updateQuantity", [productId |-> productId, newQuantity |-> newQuantity])
    /\ UNCHANGED <<orders, order_items, payments, sessions, adminOrders, firstDelivery,
                   products, outsideShop>>

\* removeItem(productId) of the cart page
removeItem(productId) ==
    /\ cart' = SelectSeq(cart, LAMBDA item : item.product.id # productId)
    /\ PageDid("removeItem", productId)
    /\ UNCHANGED <<orders, order_items, payments, sessions, adminOrders, firstDelivery,
                   products, outsideShop>>

\* handleCheckout of the cart page, the address filled in: posts the cart
\* as it is to the checkout route
handleCheckout(fault) ==
    /\ Len(cart) # 0
    /\ CheckoutPOST(Shopper, cart, Shopper, fault)

\* --------------------------------------------------- admin products page
\* toggleProductStatus(productId, currentStatus): currentStatus is the
\* is_active the page holds for the row
toggleProductStatus(productId, currentStatus, error) ==
    /\ products' =
          IF error \/ productId \notin DOMAIN products THEN products
          ELSE [products EXCEPT ![productId].is_active = ~currentStatus]
    /\ PageDid("toggleProductStatus", productId)
    /\ UNCHANGED <<orders, order_items, payments, sessions, adminOrders, firstDelivery,
                   cart, outsideShop>>

\* deleteProduct(productId), the confirm dialog accepted: DELETE FROM
\* products, and order_items.product_id is ON DELETE CASCADE
deleteProduct(productId, error) ==
    /\ IF error
       THEN UNCHANGED <<products, order_items>>
       ELSE /\ products' = [p \in DOMAIN products \ {productId} |-> products[p]]
            /\ order_items' =
                  SelectSeq(order_items, LAMBDA row : row.product_id # productId)
    /\ PageDid("deleteProduct", productId)
    /\ UNCHANGED <<orders, payments, sessions, adminOrders, firstDelivery, cart,
                   outsideShop>>

\* the prices an admin sets
ProductPrices == {1999, 2499}

\* an admin edits the price of a product (CHECK (price > 0))
updateProductPrice(productId, price) ==
    /\ productId \in DOMAIN products
    /\ price > 0
    /\ price # products[productId].price
    /\ products' = [products EXCEPT ![productId].price = price]
    /\ PageDid("updateProductPrice", productId)
    /\ UNCHANGED <<orders, order_items, payments, sessions, adminOrders, firstDelivery,
                   cart, outsideShop>>

\* ------------------------------------------------- login and register
\* verify_password(input_password, stored_hash)
verify_password(input_password, stored_hash) ==
    hash_password(input_password) = stored_hash

\* .from('users').select().eq('email', email).single(): the row ids found
UsersByEmail(email) == {i \in DOMAIN users : users[i].email = email}

\* a login that lets every status through
ApprovedAnyStatus(user) == TRUE

\* the check `user.status !== 'approved'` of the login route, passed
Approved(user) == user.status = "approved"

\* what the two routes write into `last`
AuthDid(op, req, st, body, errs) ==
    /\ last' = [op |-> op, status |-> st, body |-> body, req |-> req, errors |-> errs,
                pre |-> Tables]
    /\ UNCHANGED <<orders, order_items, payments, sessions, adminOrders, firstDelivery,
                   catalogVars, chatVars>>

\* POST /api/auth/login.  `faults`: the calls that return an error for a
\* reason outside the request ("users" the row lookup, "rpc" verify_password)
LoginPOST(email, password, faults) ==
    LET found == UsersByEmail(email)
        error == "users" \in faults \/ Cardinality(found) # 1
        user == users[CHOOSE i \in found : TRUE]
        passwordCheck == verify_password(password, user.password_hash)
        respond(st, body) ==
            AuthDid("login", [email |-> email, password |-> password], st, body, faults)
    IN
    /\ UNCHANGED authVars
    /\ IF email = "" \/ password = "" THEN
           respond(400, "Email and password are required")
       ELSE IF error THEN
           respond(401, "Invalid email or password")
       ELSE IF ~Approved(user) THEN
           respond(403, "Account is pending approval")
       ELSE IF "rpc" \in faults \/ ~passwordCheck THEN
           respond(401, "Invalid email or password")
       ELSE
           respond(200, "user and token")

\* users without the UNIQUE constraint on email
UsersInsertNoUnique(row) == TRUE

\* users: email UNIQUE NOT NULL
UsersInsertOk(row) == \A i \in DOMAIN users : users[i].email # row.email

\* POST /api/auth/register.  `faults`: "users" the lookup of the email,
\* "rpc" hash_password, "insert" the insert of the row.  The route reads
\* only `data` of the lookup, so a failed lookup reads as no such user.
RegisterPOST(email, password, fullName, faults) ==
    LET found == UsersByEmail(email)
        existingUser == "users" \notin faults /\ Cardinality(found) = 1
        hashError == "rpc" \in faults
        row == [email |-> email, password_hash |-> hash_password(password),
                role |-> "customer", status |-> "pending"]
        insertError == "insert" \in faults \/ ~UsersInsertOk(row)
        respond(st, body) ==
            /\ AuthDid("register",
                       [email |-> email, password |-> password,
                        complete |-> email # "" /\ password # "" /\ fullName # ""],
                       st, body, faults)
            /\ UNCHANGED registering
    IN
    IF email = "" \/ password = "" \/ fullName = "" THEN
        /\ respond(400, "Email, password, and full name are required")
        /\ UNCHANGED users
    ELSE IF existingUser THEN
        /\ respond(409, "User with this email already exists")
        /\ UNCHANGED users
    ELSE IF hashError THEN
        /\ respond(500, "Error processing password")
        /\ UNCHANGED users
    ELSE IF insertError THEN
        /\ respond(500, "Error creating user account")
        /\ UNCHANGED users
    ELSE
        /\ users' = Append(users, row)
        /\ respond(200, "Account created successfully")

\* the requests the register route serves at the same time, and the state
\* of one that is not being served
Requests == {"r1", "r2"}
Idle == [pc |-> "idle"]

\* the route up to the answer of its lookup: request r is rejected for a
\* missing field or an existing user, or goes on to hash and insert
registerLookup(r, email, password, fullName, faults) ==
    LET found == UsersByEmail(email)
        existingUser == "users" \notin faults /\ Cardinality(found) = 1
        respond(st, body) ==
            /\ AuthDid("register",
                       [email |-> email, password |-> password,
                        complete |-> email # "" /\ password # "" /\ fullName # ""],
                       st, body, faults)
            /\ UNCHANGED <<users, registering>>
    IN
    /\ registering[r] = Idle
    /\ IF email = "" \/ password = "" \/ fullName = "" THEN
           respond(400, "Email, password, and full name are required")
       ELSE IF existingUser THEN
           respond(409, "User with this email already exists")
       ELSE
           /\ registering' = [registering EXCEPT
                                 ![r] = [pc |-> "hash", email |-> email,
                                         password |-> password, faults |-> faults]]
           /\ UNCHANGED <<orders, order_items, payments, sessions, adminOrders,
                          firstDelivery, catalogVars, chatVars, users, last>>

\* the route from hash_password on, for a request r that passed the lookup
registerInsert(r) ==
    LET request == registering[r]
        hashError == "rpc" \in request.faults
        row == [email |-> request.email, password_hash |-> hash_password(request.password),
                role |-> "customer", status |-> "pending"]
        insertError == "insert" \in request.faults \/ ~UsersInsertOk(row)
        respond(st, body) ==
            /\ AuthDid("register",
                       [email |-> request.email, password |-> request.password,
                        complete |-> TRUE],
                       st, body, request.faults)
            /\ registering' = [registering EXCEPT ![r] = Idle]
    IN
    /\ registering[r] # Idle
    /\ IF hashError THEN
           /\ respond(500, "Error processing password")
           /\ UNCHANGED users
       ELSE IF insertError THEN
           /\ respond(500, "Error creating user account")
           /\ UNCHANGED users
       ELSE
           /\ users' = Append(users, row)
           /\ respond(200, "Account created successfully")

\* an administrator approves or rejects a user
setUserStatus(userId, status) ==
    /\ userId \in DOMAIN users
    /\ status \in {"approved", "rejected"}
    /\ status # users[userId].status
    /\ users' = [users EXCEPT ![userId].status = status]
    /\ AuthDid("setUserStatus", [userId |-> userId, status |-> status], 0, "", {})
    /\ UNCHANGED registering

\* ------------------------------------------------------------ chat route
\* the customers who have a thread, and the admin who answers
ChatCustomers == {"u1", "u2"}
ChatAdmin == "admin"

\* message texts are sequences of characters
Blank == " "

RECURSIVE TrimStart(_)
TrimStart(text) ==
    IF text # <<>> /\ Head(text) = Blank THEN TrimStart(Tail(text)) ELSE text

RECURSIVE TrimEnd(_)
TrimEnd(text) ==
    IF text # <<>> /\ text[Len(text)] = Blank
    THEN TrimEnd(SubSeq(text, 1, Len(text) - 1)) ELSE text

\* String.prototype.trim
Trim(text) == TrimEnd(TrimStart(text))

\* the rows of the thread of customerId as a select returns them: ordered
\* by created_at ascending, each with its id
ThreadRows(customerId) ==
    SelectSeq([i \in DOMAIN chat_messages |->
                  [id |-> i,
                   customer_id |-> chat_messages[i].customer_id,
                   sender_id |-> chat_messages[i].sender_id,
                   sender_role |-> chat_messages[i].sender_role,
                   content |-> chat_messages[i].content,
                   is_read |-> chat_messages[i].is_read]],
              LAMBDA row : row.customer_id = customerId)

\* users.role of the user with this id
user_role(id) == IF id = ChatAdmin THEN "admin" ELSE "customer"

\* the view is written over sender_id and receiver_id, the route stores
\* customer_id and sender_id: the receiver of a row is the other party of
\* its thread
receiver_id(row) == IF row.sender_id = row.customer_id THEN ChatAdmin ELSE row.customer_id

\* the rows of chat_messages the view joins: sender and receiver of
\* different roles (WHERE u1.role != u2.role)
ViewJoins(i) == user_role(chat_messages[i].sender_id) # user_role(receiver_id(chat_messages[i]))

\* the customer_id column of the view: the party that is not the admin
ViewCustomer(i) ==
    IF user_role(chat_messages[i].sender_id) = "admin"
    THEN receiver_id(chat_messages[i]) ELSE chat_messages[i].sender_id

RECURSIVE unread_count_any(_, _)
\* a count that forgets the is_read test
unread_count_any(customerId, n) ==
    IF n = 0 THEN 0
    ELSE unread_count_any(customerId, n - 1)
         + (IF ViewJoins(n) /\ ViewCustomer(n) = customerId
               /\ user_role(chat_messages[n].sender_id) # "admin"
            THEN 1 ELSE 0)

RECURSIVE unread_count(_, _)
\* COUNT(CASE WHEN cm.is_read = false AND u1.role != 'admin' THEN 1 END)
\* over the rows 1..n of the group of customerId
unread_count(customerId, n) ==
    IF n = 0 THEN 0
    ELSE unread_count(customerId, n - 1)
         + (IF ViewJoins(n) /\ ViewCustomer(n) = customerId
               /\ ~chat_messages[n].is_read
               /\ user_role(chat_messages[n].sender_id) # "admin"
            THEN 1 ELSE 0)

RECURSIVE ViewRows(_, _)
\* the groups of the view among rows 1..n with their MAX(cm.created_at),
\* ordered by last_message_at descending (created_at grows with the
\* position of a row); `seen` holds the customers already listed
ViewRows(n, seen) ==
    IF n = 0 THEN <<>>
    ELSE IF ~ViewJoins(n) \/ ViewCustomer(n) \in seen THEN ViewRows(n - 1, seen)
    ELSE <<[customer_id |-> ViewCustomer(n), last_message_at |-> n]>>
         \o ViewRows(n - 1, seen \cup {ViewCustomer(n)})

\* select customer_id, last_message_at from chat_threads order by
\* last_message_at desc
ThreadsLatestFirst == ViewRows(Len(chat_messages), {})

\* select * from chat_threads order by last_message_at desc
chat_threads ==
    [k \in DOMAIN ThreadsLatestFirst |->
        [customer_id |-> ThreadsLatestFirst[k].customer_id,
         last_message_at |-> ThreadsLatestFirst[k].last_message_at,
         unread_count |-> unread_count(ThreadsLatestFirst[k].customer_id,
                                       Len(chat_messages))]]

\* .range(from, to) of a result: the rows at positions from..to, counted
\* from 0, as far as there are rows
Range(rows, from, to) ==
    SubSeq(rows, from + 1, IF to + 1 < Len(rows) THEN to + 1 ELSE Len(rows))

\* what the chat route and the messages pages write into `last`; of an
\* event, `held` tells whether the list had the id of an INSERT before
ChatDid(op, req, st, body) ==
    /\ last' = [op |-> op, status |-> st, body |-> body, req |-> req, errors |-> {},
                pre |-> Tables]
    /\ UNCHANGED <<orders, order_items, payments, sessions, adminOrders, firstDelivery,
                   catalogVars, authVars>>

\* POST /api/chat.  `fault`: the insert returns an error for a reason
\* outside the request.  `caller` sent the request; the route reads no
\* session.
ChatPOST(caller, customer_id, sender_id, sender_role, content, fault) ==
    LET row == [customer_id |-> customer_id, sender_id |-> sender_id,
                sender_role |-> sender_role, content |-> content, is_read |-> FALSE]
        respond(st, body) ==
            ChatDid("chat", [content |-> content, caller |-> caller], st, body)
    IN
    IF customer_id = Undefined \/ sender_id = Undefined \/ sender_role = Undefined
       \/ content = <<>> THEN
        /\ respond(400, "Missing fields")
        /\ UNCHANGED chat_messages
    ELSE IF fault THEN
        /\ respond(500, "Internal error")
        /\ UNCHANGED chat_messages
    ELSE
        /\ chat_messages' = Append(chat_messages, row)
        /\ respond(200, "message")

\* markRead(customerThreadId, readerRole): marks the messages of the thread
\* that readerRole did not write as read
markRead(customerThreadId, readerRole) ==
    /\ \E i \in DOMAIN chat_messages :
          /\ chat_messages[i].customer_id = customerThreadId
          /\ chat_messages[i].sender_role # readerRole
          /\ ~chat_messages[i].is_read
    /\ chat_messages' =
          [i \in DOMAIN chat_messages |->
              IF chat_messages[i].customer_id = customerThreadId
                 /\ chat_messages[i].sender_role # readerRole
              THEN [chat_messages[i] EXCEPT !.is_read = TRUE]
              ELSE chat_messages[i]]
    /\ ChatDid("page", <<>>, 0, "")
    /\ UNCHANGED <<adminChat, customerChat>>

\* ----------------------------------------------------- realtime payloads
\* payload.new of the INSERT event of message id: the row as inserted
InsertPayload(id) ==
    [id |-> id,
     customer_id |-> chat_messages[id].customer_id,
     sender_id |-> chat_messages[id].sender_id,
     sender_role |-> chat_messages[id].sender_role,
     content |-> chat_messages[id].content,
     is_read |-> FALSE]

\* payload.new of the UPDATE event of message id: the row as updated
UpdatePayload(id) == [InsertPayload(id) EXCEPT !.is_read = TRUE]

\* supabase.removeChannel that leaves the channel subscribed
removeChannelLeak(channels, customerId) == channels

\* supabase.removeChannel(channel) of the cleanup function
removeChannel(channels, customerId) == channels \ {customerId}

\* ---------------------------------------------------- admin messages page
\* the page before it is opened and after it is left
AdminPageClosed ==
    [mounted |-> FALSE, selectedCustomerId |-> Undefined, threadIds |-> <<>>,
     threadPage |-> 0, messages |-> <<>>, channels |-> {}, loading |-> {}]

\* THREAD_PAGE_SIZE of the page is 20; 2 here, so that a second page exists
\* with a handful of messages
THREAD_PAGE_SIZE == 2

\* select customer_id, created_at from chat_messages order by created_at
\* desc: the customer ids, the most recent message first
MessagesLatestFirst ==
    [k \in 1..Len(chat_messages) |-> chat_messages[Len(chat_messages) + 1 - k].customer_id]

RECURSIVE Dedupe(_, _, _)
\* the loop of the fallback: the ids of msgs not seen before, in their
\* order, until `ids` holds THREAD_PAGE_SIZE of them
Dedupe(msgs, seen, ids) ==
    IF msgs = <<>> \/ Len(ids) >= THREAD_PAGE_SIZE THEN ids
    ELSE IF Head(msgs) \in seen THEN Dedupe(Tail(msgs), seen, ids)
    ELSE Dedupe(Tail(msgs), seen \cup {Head(msgs)}, Append(ids, Head(msgs)))

\* an INSERT handler that appends whatever arrives
adminOnInsertNoCheck(prev, payload) == Append(prev, payload)

\* the INSERT handler of the admin channel
adminOnInsert(prev, payload) ==
    IF \E i \in DOMAIN prev : prev[i].id = payload.id THEN prev ELSE Append(prev, payload)

\* the UPDATE handler of the admin channel
adminOnUpdate(prev, payload) ==
    [i \in DOMAIN prev |-> IF prev[i].id = payload.id THEN payload ELSE prev[i]]

\* setSelectedCustomerId(customerId) and the effect it triggers: the cleanup
\* of the previous effect, then loadConversation and subscribeRealtime
adminSelect(page, customerId) ==
    IF customerId = page.selectedCustomerId THEN page
    ELSE [page EXCEPT
            !.selectedCustomerId = customerId,
            !.channels = removeChannel(@, page.selectedCustomerId) \cup {customerId},
            !.loading = @ \cup {[customerId |-> customerId,
                                 data |-> ThreadRows(customerId)]}]

adminMount ==
    /\ ~adminChat.mounted
    /\ adminChat' = [adminChat EXCEPT !.mounted = TRUE]
    /\ ChatDid("page", <<>>, 0, "")
    /\ UNCHANGED <<chat_messages, customerChat>>

\* leaving the page: the cleanup of the effect runs, the state is dropped
adminUnmount ==
    /\ adminChat.mounted
    /\ adminChat' =
          [AdminPageClosed EXCEPT
              !.channels = removeChannel(adminChat.channels, adminChat.selectedCustomerId)]
    /\ ChatDid("page", <<>>, 0, "")
    /\ UNCHANGED <<chat_messages, customerChat>>

\* loadThreads(page): the thread ids of the page from the chat_threads
\* view or, when the view answers with an error, from a scan of
\* chat_messages; both reads failing leaves the list.  The names fetchUsers
\* adds to userMap are not modelled.
loadThreads(page, viewError, msgsError) ==
    LET from == page * THREAD_PAGE_SIZE
        to == from + THREAD_PAGE_SIZE - 1
        view == Range(ThreadsLatestFirst, from, to)
        msgs == Range(MessagesLatestFirst, from, to + THREAD_PAGE_SIZE)
        ids == IF ~viewError THEN [k \in DOMAIN view |-> view[k].customer_id]
               ELSE Dedupe(msgs, {}, <<>>)
        paged == [adminChat EXCEPT !.threadPage = page]
    IN
    /\ adminChat.mounted
    /\ adminChat' =
          IF (viewError /\ msgsError) \/ Len(ids) = 0 THEN paged
          ELSE LET listed == [paged EXCEPT
                                 !.threadIds = IF page = 0 THEN ids ELSE @ \o ids]
               IN IF page = 0 /\ adminChat.selectedCustomerId = Undefined
                  THEN adminSelect(listed, ids[1]) ELSE listed
    /\ ChatDid("page", <<>>, 0, "")
    /\ UNCHANGED <<chat_messages, customerChat>>

\* a click on the thread button of customerId
selectThread(customerId) ==
    /\ adminChat.mounted
    /\ \E i \in DOMAIN adminChat.threadIds : adminChat.threadIds[i] = customerId
    /\ adminChat' = adminSelect(adminChat, customerId)
    /\ ChatDid("page", <<>>, 0, "")
    /\ UNCHANGED <<chat_messages, customerChat>>

\* the response of a loadConversation arrives
loadConversation(load, error) ==
    /\ load \in adminChat.loading
    /\ adminChat' = [adminChat EXCEPT
                        !.loading = @ \ {load},
                        !.messages = IF error THEN @ ELSE load.data]
    /\ ChatDid("page", <<>>, 0, "")
    /\ UNCHANGED <<chat_messages, customerChat>>

\* sendReply with the composer holding `composer`
sendReply(composer, fault) ==
    LET text == Trim(composer) IN
    /\ adminChat.mounted
    /\ text # <<>>
    /\ adminChat.selectedCustomerId # Undefined
    /\ ChatPOST(ChatAdmin, adminChat.selectedCustomerId, ChatAdmin, "admin", text, fault)
    /\ UNCHANGED <<adminChat, customerChat>>

\* the admin channel of the thread of message id delivers its INSERT event
adminInsertEvent(id) ==
    /\ chat_messages[id].customer_id \in adminChat.channels
    /\ adminChat' = [adminChat EXCEPT !.messages = adminOnInsert(@, InsertPayload(id))]
    /\ ChatDid("event",
               [view |-> "admin", kind |-> "INSERT",
                customer_id |-> chat_messages[id].customer_id,
                held |-> \E i \in DOMAIN adminChat.messages : adminChat.messages[i].id = id],
               0, "")
    /\ UNCHANGED <<chat_messages, customerChat>>

\* the admin channel of the thread of message id delivers its UPDATE event
adminUpdateEvent(id) ==
    /\ chat_messages[id].customer_id \in adminChat.channels
    /\ chat_messages[id].is_read
    /\ adminChat' = [adminChat EXCEPT !.messages = adminOnUpdate(@, UpdatePayload(id))]
    /\ ChatDid("event",
               [view |-> "admin", kind |-> "UPDATE",
                customer_id |-> chat_messages[id].customer_id, held |-> FALSE],
               0, "")
    /\ UNCHANGED <<chat_messages, customerChat>>

\* ------------------------------------------------- customer messages page
CustomerPageClosed ==
    [mounted |-> FALSE, messages |-> <<>>, channels |-> {}, loading |-> {}]

\* the INSERT handler of the customer channel
customerOnInsert(prev, payload) ==
    IF \E i \in DOMAIN prev : prev[i].id = payload.id THEN prev ELSE Append(prev, payload)

\* the UPDATE handler of the customer channel
customerOnUpdate(prev, payload) ==
    [i \in DOMAIN prev |-> IF prev[i].id = payload.id THEN payload ELSE prev[i]]

\* the page opens for the signed-in customer: loadMessages, subscribeRealtime
customerMount ==
    /\ ~customerChat.mounted
    /\ customerChat' =
          [mounted |-> TRUE, messages |-> <<>>,
           channels |-> {Shopper},
           loading |-> {[customerId |-> Shopper, data |-> ThreadRows(Shopper)]}]
    /\ ChatDid("page", <<>>, 0, "")
    /\ UNCHANGED <<chat_messages, adminChat>>

\* leaving the page: the cleanup of the effect runs, the state is dropped
customerUnmount ==
    /\ customerChat.mounted
    /\ customerChat' =
          [CustomerPageClosed EXCEPT
              !.channels = removeChannel(customerChat.channels, Shopper)]
    /\ ChatDid("page", <<>>, 0, "")
    /\ UNCHANGED <<chat_messages, adminChat>>

\* the response of loadMessages arrives
loadMessages(load, error) ==
    /\ load \in customerChat.loading
    /\ customerChat' = [customerChat EXCEPT
                           !.loading = @ \ {load},
                           !.messages = IF error THEN @ ELSE load.data]
    /\ ChatDid("page", <<>>, 0, "")
    /\ UNCHANGED <<chat_messages, adminChat>>

\* sendMessage with the composer holding `composer`
sendMessage(composer, fault) ==
    LET text == Trim(composer) IN
    /\ customerChat.mounted
    /\ text # <<>>
    /\ ChatPOST(Shopper, Shopper, Shopper, "customer", text, fault)
    /\ UNCHANGED <<adminChat, customerChat>>

customerInsertEvent(id) ==
    /\ chat_messages[id].customer_id \in customerChat.channels
    /\ customerChat' =
          [customerChat EXCEPT !.messages = customerOnInsert(@, InsertPayload(id))]
    /\ ChatDid("event",
               [view |-> "customer", kind |-> "INSERT",
                customer_id |-> chat_messages[id].customer_id,
                held |-> \E i \in DOMAIN customerChat.messages :
                            customerChat.messages[i].id = id],
               0, "")
    /\ UNCHANGED <<chat_messages, adminChat>>

customerUpdateEvent(id) ==
    /\ chat_messages[id].customer_id \in customerChat.channels
    /\ chat_messages[id].is_read
    /\ customerChat' =
          [customerChat EXCEPT !.messages = customerOnUpdate(@, UpdatePayload(id))]
    /\ ChatDid("event",
               [view |-> "customer", kind |-> "UPDATE",
                customer_id |-> chat_messages[id].customer_id, held |-> FALSE],
               0, "")
    /\ UNCHANGED <<chat_messages, adminChat>>

\* ------------------------------------------------------ request inputs
\* cart lines: two catalogue entries at their seed price, a line without
\* quantity, a line without price, a line without product
CartItems ==
    {[product |-> [id |-> "p1", price |-> 1999], quantity |-> 1],
     [product |-> [id |-> "p2", price |-> 2499], quantity |-> 2],
     [product |-> [id |-> "p1", price |-> 1999], quantity |-> 0],
     [product |-> [id |-> "p1", price |-> 0], quantity |-> 1],
     [product |-> [id |-> Undefined, price |-> 0], quantity |-> 1]}

RECURSIVE SeqsUpTo(_, _)
SeqsUpTo(S, n) ==
    IF n = 0 THEN {<<>>}
    ELSE LET shorter == SeqsUpTo(S, n - 1)
         IN shorter \cup {Append(s, x) : s \in {t \in shorter : Len(t) = n - 1}, x \in S}

Carts == SeqsUpTo(CartItems, MaxCart)

\* the carts of the workflow specification: one line, two lines, and a cart
\* whose second line has no price
WorkflowCarts ==
    {<<[product |-> [id |-> "p1", price |-> 1999], quantity |-> 2]>>,
     <<[product |-> [id |-> "p1", price |-> 1999], quantity |-> 1],
       [product |-> [id |-> "p2", price |-> 2499], quantity |-> 1]>>,
     <<[product |-> [id |-> "p1", price |-> 1999], quantity |-> 1],
       [product |-> [id |-> "p1", price |-> 0], quantity |-> 1]>>}
CheckoutFaults == {"none", "orders", "order_items", "stripe"}

\* who posts the cart, and the call that fails meanwhile
CheckoutCallers ==
    [userId : UserIds, fault : CheckoutFaults] \cup [userId : {Undefined}, fault : {"none"}]

\* ------------------------------------------------------- specification
Init ==
    /\ orders = <<>>
    /\ order_items = <<>>
    /\ payments = <<>>
    /\ sessions = <<>>
    /\ adminOrders = [a \in Admins |-> <<>>]
    /\ firstDelivery = {}
    /\ products = InitialProducts
    /\ cart = <<>>
    /\ users = InitialUsers
    /\ registering = [r \in Requests |-> Idle]
    /\ chat_messages = <<>>
    /\ adminChat = AdminPageClosed
    /\ customerChat = CustomerPageClosed
    /\ last = [op |-> "init", status |-> 0, body |-> "", req |-> <<>>, errors |-> {},
               pre |-> [orders |-> <<>>, order_items |-> <<>>, payments |-> <<>>,
                        products |-> InitialProducts, users |-> InitialUsers,
                        chat_messages |-> <<>>]]

Checkout(carts) ==
    \E cartItems \in carts, caller \in CheckoutCallers :
        CheckoutPOST(Shopper, cartItems, caller.userId, caller.fault)

\* the checkout route alone
NextCheckout == Len(orders) < MaxCheckouts /\ Checkout(Carts)
SpecCheckout == Init /\ [][NextCheckout]_vars

Pay == \E s \in DOMAIN sessions, ps \in {"paid", "unpaid"} : StripeComplete(s, ps)

Webhook ==
    \E delivery \in Deliveries, faults \in SUBSET {"orders", "payments"} :
        WebhookPOST(delivery, faults)

Fetch ==
    \E a \in Admins, ordersError \in BOOLEAN, unread \in SUBSET DOMAIN orders :
        fetchOrders(a, ordersError, unread)

Click ==
    \E a \in Admins, orderId \in DOMAIN orders, error \in BOOLEAN :
        ClickStatusButton(a, orderId, error)

\* orders created in the specification of the shop
MaxShopOrders == 1

AddToCart ==
    \E p \in ProductIds :
        /\ \A i \in DOMAIN cart : cart[i].product.id = p => cart[i].quantity < MaxQuantity
        /\ addToCart(p)

UpdateQuantity ==
    \E i \in DOMAIN cart, newQuantity \in 1..MaxQuantity :
        /\ newQuantity # cart[i].quantity
        /\ updateQuantity(cart[i].product.id, newQuantity)

RemoveItem == \E i \in DOMAIN cart : removeItem(cart[i].product.id)

\* the store and Stripe answer every call of the route
HandleCheckout ==
    /\ Len(orders) < MaxShopOrders
    /\ handleCheckout("none")

ToggleProductStatus ==
    \E p \in DOMAIN products, currentStatus \in BOOLEAN, error \in BOOLEAN :
        toggleProductStatus(p, currentStatus, error)

DeleteProduct == \E p \in DOMAIN products, error \in BOOLEAN : deleteProduct(p, error)

UpdateProductPrice ==
    \E p \in DOMAIN products, price \in ProductPrices : updateProductPrice(p, price)

\* largest quantity of one cart line in the specification of the cart
MaxCartQuantity == 4

\* the Add to cart button of the product list
ClickAdd ==
    \E p \in ProductIds :
        /\ \A i \in DOMAIN cart : cart[i].product.id = p => cart[i].quantity < MaxCartQuantity
        /\ addToCart(p)

\* the minus and plus buttons of a cart line
ClickQuantity ==
    \E i \in DOMAIN cart, step \in {-1, 1} :
        /\ cart[i].quantity + step <= MaxCartQuantity
        /\ updateQuantity(cart[i].product.id, cart[i].quantity + step)

\* the cart of one customer on the product list page and the cart page
NextCart ==
    \/ ClickAdd
    \/ ClickQuantity
    \/ RemoveItem
SpecCart == Init /\ [][NextCart]_vars

\* the shop: a customer fills the cart and checks out while admins manage
\* the catalogue
NextShop ==
    \/ AddToCart
    \/ UpdateQuantity
    \/ RemoveItem
    \/ HandleCheckout
    \/ ToggleProductStatus
    \/ DeleteProduct
    \/ UpdateProductPrice
SpecShop == Init /\ [][NextShop]_vars

\* rows of users in the specification of the two auth routes
MaxUsers == 4

\* what the forms post: a missing field is the empty string
Emails == {"", "admin@supplementstore.com", "u1@example.com", "u2@example.com",
           "u3@example.com"}
Passwords == {"", "pw", "Admin123!"}

Login ==
    \E email \in Emails, password \in Passwords, faults \in SUBSET {"users", "rpc"} :
        LoginPOST(email, password, faults)

Register ==
    /\ Len(users) < MaxUsers
    /\ \E email \in Emails, password \in {"", "pw"}, fullName \in {"", "name"},
          faults \in {{}, {"users"}, {"rpc"}, {"insert"}} :
          RegisterPOST(email, password, fullName, faults)

SetUserStatus ==
    \E userId \in DOMAIN users, status \in user_status : setUserStatus(userId, status)

\* registration, approval and login
NextAuth ==
    \/ Login
    \/ Register
    \/ SetUserStatus
SpecAuth == Init /\ [][NextAuth]_vars

\* requests the register route has passed the lookup of
InFlight == {r \in Requests : registering[r] # Idle}

RegisterLookup ==
    /\ Len(users) + Cardinality(InFlight) < MaxUsers
    /\ \E r \in Requests, email \in {"", "u1@example.com", "u2@example.com"},
          faults \in {{}, {"users"}, {"rpc"}, {"insert"}} :
          registerLookup(r, email, "pw", "name", faults)

RegisterInsert == \E r \in Requests : registerInsert(r)

\* the register route serving two requests at a time
NextRegister ==
    \/ RegisterLookup
    \/ RegisterInsert
SpecRegister == Init /\ [][NextRegister]_vars

\* rows of chat_messages in the specification of the chat
MaxMessages == 2

\* bodies posted to the chat route, and texts typed into a composer
ChatContents == {<<>>, <<Blank>>, <<"H">>}
ComposerTexts == {<<>>, <<Blank>>, <<Blank, "H", Blank>>}

\* a request to the route from the shopper's browser in the name of a
\* customer
ChatPost ==
    /\ Len(chat_messages) < MaxMessages
    /\ \E customer_id \in ChatCustomers \cup {Undefined}, content \in ChatContents,
          fault \in BOOLEAN :
          ChatPOST(Shopper, customer_id, customer_id, "customer", content, fault)
    /\ UNCHANGED <<adminChat, customerChat>>

\* the admin side reads a thread
MarkRead == \E customerThreadId \in ChatCustomers : markRead(customerThreadId, "admin")

SendReply ==
    /\ Len(chat_messages) < MaxMessages
    /\ \E composer \in ComposerTexts, fault \in BOOLEAN : sendReply(composer, fault)

SendMessage ==
    /\ Len(chat_messages) < MaxMessages
    /\ \E composer \in ComposerTexts, fault \in BOOLEAN : sendMessage(composer, fault)

\* one messages page is open at a time
AdminMount == ~customerChat.mounted /\ adminMount
CustomerMount == ~adminChat.mounted /\ customerMount

\* the effect that runs loadThreads(0) when the page opens, again after a
\* load that listed nothing
LoadThreads ==
    /\ adminChat.threadIds = <<>>
    /\ adminChat.threadPage = 0
    /\ \E viewError, msgsError \in BOOLEAN : loadThreads(0, viewError, msgsError)

\* a thread is selected while at most one earlier load is still in flight
SelectThread ==
    /\ Cardinality(adminChat.loading) < 2
    /\ \E customerId \in ChatCustomers :
          /\ \A load \in adminChat.loading : load.customerId # customerId
          /\ selectThread(customerId)

LoadConversation ==
    \E load \in adminChat.loading, error \in BOOLEAN : loadConversation(load, error)

LoadMessages ==
    \E load \in customerChat.loading, error \in BOOLEAN : loadMessages(load, error)

AdminEvent ==
    \E id \in DOMAIN chat_messages : adminInsertEvent(id) \/ adminUpdateEvent(id)

CustomerEvent ==
    \E id \in DOMAIN chat_messages : customerInsertEvent(id) \/ customerUpdateEvent(id)

\* the chat route, the store and the two messages pages
NextChat ==
    \/ ChatPost
    \/ MarkRead
    \/ AdminMount
    \/ adminUnmount
    \/ LoadThreads
    \/ SelectThread
    \/ LoadConversation
    \/ SendReply
    \/ AdminEvent
    \/ CustomerMount
    \/ customerUnmount
    \/ LoadMessages
    \/ SendMessage
    \/ CustomerEvent
SpecChat == Init /\ [][NextChat]_vars

\* rows of chat_messages in the specification of the thread list
MaxThreadMessages == 3

\* the customers who write while the thread list is closed
ThreadCustomers == ChatCustomers \cup {"u3"}

ThreadPost ==
    /\ ~adminChat.mounted
    /\ Len(chat_messages) < MaxThreadMessages
    /\ \E customer_id \in ThreadCustomers :
          ChatPOST(customer_id, customer_id, customer_id, "customer", <<"H">>, FALSE)
    /\ UNCHANGED <<adminChat, customerChat>>

\* a reply of the admin stored by the route
ThreadReply ==
    /\ ~adminChat.mounted
    /\ Len(chat_messages) < MaxThreadMessages
    /\ \E customer_id \in ThreadCustomers :
          ChatPOST(ChatAdmin, customer_id, ChatAdmin, "admin", <<"H">>, FALSE)
    /\ UNCHANGED <<adminChat, customerChat>>

\* the Load more button, shown while the list fills its pages
LoadMore ==
    /\ Len(adminChat.threadIds) >= (adminChat.threadPage + 1) * THREAD_PAGE_SIZE
    /\ \E viewError, msgsError \in BOOLEAN :
          loadThreads(adminChat.threadPage + 1, viewError, msgsError)

\* the thread list of the admin over a store that holds still while the
\* list is open
NextThreads ==
    \/ ThreadPost
    \/ ThreadReply
    \/ MarkRead
    \/ AdminMount
    \/ adminUnmount
    \/ LoadThreads
    \/ LoadMore
SpecThreads == Init /\ [][NextThreads]_vars

\* rows of orders and of chat_messages in the specification of the callers
MaxAuthzRows == 2

\* who sends a request: a customer, the admin, or nobody signed in
Callers == ChatCustomers \cup {ChatAdmin, "anonymous"}

AuthzChatPost ==
    /\ Len(chat_messages) < MaxAuthzRows
    /\ \E caller \in Callers, customer_id \in ChatCustomers,
          sender_id \in ChatCustomers \cup {ChatAdmin}, sender_role \in {"customer", "admin"} :
          ChatPOST(caller, customer_id, sender_id, sender_role, <<"H">>, FALSE)
    /\ UNCHANGED <<adminChat, customerChat>>

AuthzCheckout ==
    /\ Len(orders) < MaxAuthzRows
    /\ \E caller \in Callers, cartItems \in WorkflowCarts, userId \in UserIds \cup {Undefined} :
          CheckoutPOST(caller, cartItems, userId, "none")

\* the two write routes, called by anybody with any body
NextAuthz ==
    \/ AuthzChatPost
    \/ AuthzCheckout
SpecAuthz == Init /\ [][NextAuthz]_vars

\* Stripe has the 2xx answer to the event of session s: every delivery the
\* handler handles is answered 200 and entered in firstDelivery
Acknowledged(s) == \E d \in firstDelivery : d.session = s

\* Stripe delivers the event of a completed session again until the
\* endpoint answers 2xx
ProviderDeliver(s, faults) ==
    /\ sessions[s].payment_status # "open"
    /\ ~Acknowledged(s)
    /\ WebhookPOST([event |-> SessionEvent(s), sig |-> Sign(SessionEvent(s), endpointSecret)],
                   faults)

Redeliver ==
    \E s \in DOMAIN sessions, faults \in SUBSET {"orders", "payments"} :
        ProviderDeliver(s, faults)

\* checkout, payment, admin sessions and the deliveries of Stripe, which
\* go on while an event is not acknowledged; the store does not fail for
\* ever, so a delivery during which no write fails happens if deliveries
\* go on
NextRetry ==
    \/ Len(orders) < MaxOrders /\ Checkout(WorkflowCarts)
    \/ Pay
    \/ Redeliver
    \/ Fetch
    \/ Click
SpecRetry ==
    /\ Init /\ [][NextRetry]_vars
    /\ \A s \in 1..MaxOrders : WF_vars(s \in DOMAIN sessions /\ ProviderDeliver(s, {}))

\* checkout, payment, webhook deliveries and admin sessions together
Next ==
    \/ Len(orders) < MaxOrders /\ Checkout(WorkflowCarts)
    \/ Pay
    \/ Webhook
    \/ Fetch
    \/ Click
Spec == Init /\ [][Next]_vars

\* ================================================================ claims

\* sum over the order items of order o of unit_price * quantity
ItemsTotal(o) ==
    SumOver([i \in DOMAIN order_items |->
                IF order_items[i].order_id = o
                THEN order_items[i].unit_price * order_items[i].quantity ELSE 0],
            Len(order_items))

ItemsOf(o) == {i \in DOMAIN order_items : order_items[i].order_id = o}
PaymentsOf(o) == {i \in DOMAIN payments : payments[i].order_id = o}

\* C1: a successful checkout of a cart of N >= 1 valid lines creates exactly
\* one order, in status pending, and exactly N order items for it, whose
\* unit_price * quantity sum to the order's total_amount.
C1_CheckoutCreatesOrderAndItems ==
    (last.op = "checkout" /\ last.status = 200 /\ last.req.n >= 1 /\ last.req.valid) =>
        LET o == Len(orders) IN
        /\ Len(orders) = Len(last.pre.orders) + 1
        /\ SubSeq(orders, 1, o - 1) = last.pre.orders
        /\ orders[o].status = "pending"
        /\ Cardinality(ItemsOf(o)) = last.req.n
        /\ Len(order_items) = Len(last.pre.order_items) + last.req.n
        /\ SubSeq(order_items, 1, Len(last.pre.order_items)) = last.pre.order_items
        /\ ItemsTotal(o) = orders[o].total_amount

\* a second order was created from a valid two-line cart
C1_Witness ==
    /\ last.op = "checkout" /\ last.status = 200
    /\ last.req.valid /\ last.req.n = 2
    /\ Len(orders) = 2 /\ Cardinality(ItemsOf(2)) = 2

\* C2: order creation is all-or-nothing: every order row has order items,
\* and a checkout request that returns an error leaves no order row behind.
C2_AllOrNothing ==
    /\ \A o \in DOMAIN orders : ItemsOf(o) # {}
    /\ (last.op = "checkout" /\ last.status >= 400) => orders = last.pre.orders

\* the transitions of the order state machine
AllowedTransition(from, to) ==
    \/ from = "pending" /\ to = "processing"
    \/ from = "processing" /\ to = "shipped"
    \/ from = "shipped" /\ to = "delivered"
    \/ from \in {"pending", "processing", "shipped"} /\ to = "cancelled"

\* C3: updateOrderStatus changes the stored status only along
\* pending->processing->shipped->delivered or non-terminal->cancelled; a
\* request for any other change is rejected and the stored status unchanged.
C3_UpdateStatusFollowsStateMachine ==
    last.op = "updateOrderStatus" =>
        LET id == last.req.orderId
            from == last.pre.orders[id].status
            to == orders[id].status
        IN /\ from # to => AllowedTransition(from, to)
           /\ (last.req.newStatus # from /\ ~AllowedTransition(from, last.req.newStatus))
                 => (to = from /\ last.body = "alert")

Rank(st) ==
    CASE st = "pending" -> 0
      [] st = "processing" -> 1
      [] st = "shipped" -> 2
      [] st = "delivered" -> 3
      [] OTHER -> 4

\* C4: under any interleaving of admin sessions and webhook deliveries the
\* stored status never moves down pending < processing < shipped < delivered,
\* and a cancelled or delivered order never changes status again.
C4_StatusMonotonic ==
    \A o \in DOMAIN last.pre.orders :
        LET from == last.pre.orders[o].status
            to == orders[o].status
        IN /\ from \in {"cancelled", "delivered"} => to = from
           /\ (from # "cancelled" /\ to # "cancelled") => Rank(from) <= Rank(to)

\* the request handled last is a webhook delivery with Stripe's signature
SignedDelivery ==
    /\ last.op = "webhook"
    /\ last.req.sig = Sign(last.req.event, endpointSecret)

\* C5: after the handler processed a validly signed
\* checkout.session.completed event for an order in status pending, the order
\* is in status processing and exactly one payment row exists for it, with
\* status completed and the provider transaction id.
C5_ConfirmationMovesPendingOrder ==
    (/\ SignedDelivery
     /\ last.req.event.type = "checkout.session.completed"
     /\ last.req.event.order_id \in DOMAIN last.pre.orders
     /\ last.pre.orders[last.req.event.order_id].status = "pending") =>
        LET o == last.req.event.order_id IN
        /\ orders[o].status = "processing"
        /\ Cardinality(PaymentsOf(o)) = 1
        /\ \A i \in PaymentsOf(o) :
              /\ payments[i].status = "completed"
              /\ payments[i].transaction_id = transaction_id(last.req.event)

\* C6: after the same payment-confirmation event was delivered two or more
\* times, at most one payment row has its transaction id, and the order's
\* status is the one it had after the first delivery.
C6_RedeliveryIdempotent ==
    (SignedDelivery /\ last.req.redelivery) =>
        LET e == last.req.event IN
        /\ Cardinality({i \in DOMAIN payments :
                            payments[i].transaction_id = transaction_id(e)}) <= 1
        /\ \A d \in firstDelivery :
              d.session = SessionOf(e) => orders[e.order_id].status = d.status

\* C7: in every reachable state each order has at most one payment row with
\* status completed.
C7_AtMostOneCompletedPayment ==
    \A o \in DOMAIN orders :
        Cardinality({i \in PaymentsOf(o) : payments[i].status = "completed"}) <= 1

\* the event of a paid session was delivered again, its payment is recorded
C7_Witness ==
    /\ SignedDelivery /\ last.req.redelivery
    /\ last.req.event.payment_status = "paid"
    /\ \E i \in PaymentsOf(last.req.event.order_id) : payments[i].status = "completed"

\* C8: a delivery whose signature does not verify against the body and the
\* webhook secret is answered 400 and changes neither orders nor payments.
C8_BadSignatureRejected ==
    (last.op = "webhook" /\ last.req.sig # Sign(last.req.event, endpointSecret)) =>
        /\ last.status = 400
        /\ orders = last.pre.orders
        /\ payments = last.pre.payments

\* a delivery with a bad signature named a pending order of the store
C8_Witness ==
    /\ last.op = "webhook"
    /\ last.req.sig # Sign(last.req.event, endpointSecret)
    /\ last.req.event.type = "checkout.session.completed"
    /\ last.req.event.order_id \in DOMAIN orders
    /\ orders[last.req.event.order_id].status = "pending"
    /\ last.status = 400

\* C9: if the order update or the payment insert fails while the handler
\* processes a payment confirmation, the handler answers 500 and does not
\* acknowledge the delivery.
C9_WriteFailureIsServerError ==
    (/\ SignedDelivery
     /\ last.req.event.type = "checkout.session.completed"
     /\ last.req.event.order_id \in DOMAIN last.pre.orders
     /\ last.errors # {}) =>
        (last.status = 500 /\ last.body # "received")

\* C10: a validly signed payment confirmation whose order id is missing or
\* names no order is acknowledged, and orders and payments stay unchanged.
C10_UnknownOrderAcknowledged ==
    (/\ SignedDelivery
     /\ last.req.event.type = "checkout.session.completed"
     /\ last.req.event.order_id \notin DOMAIN last.pre.orders) =>
        /\ last.status = 200
        /\ last.body = "received"
        /\ orders = last.pre.orders
        /\ payments = last.pre.payments

\* the event of a session whose order id names no order was acknowledged
\* while the store held an order
C10_Witness ==
    /\ SignedDelivery
    /\ last.req.event = UnknownOrderEvent
    /\ last.status = 200
    /\ Len(orders) >= 1

\* the cart line asks for a product the store cannot sell: no such row, an
\* inactive row, or fewer in stock than the line's quantity
Unsellable(item, prods) ==
    \/ item.product.id \notin DOMAIN prods
    \/ ~prods[item.product.id].is_active
    \/ prods[item.product.id].stock_quantity < item.quantity

\* C11: a checkout request with a line whose product is missing, inactive or
\* short of stock is rejected, and no order and no order item is created.
C11_CheckoutValidatesCart ==
    (last.op = "checkout" /\ \E i \in DOMAIN cart : Unsellable(cart[i], last.pre.products)) =>
        /\ last.status >= 400
        /\ orders = last.pre.orders
        /\ order_items = last.pre.order_items

\* C12: the unit_price of each item of a new order, and the order total, use
\* the price the product has in the store when the order is created, also
\* when that price changed after the line was put into the cart.
C12_OrderUsesStorePrice ==
    (last.op = "checkout" /\ last.status = 200) =>
        LET o == Len(orders)
            prods == last.pre.products
        IN /\ \A i \in ItemsOf(o) :
                 /\ order_items[i].product_id \in DOMAIN prods
                 /\ order_items[i].unit_price = prods[order_items[i].product_id].price
           /\ orders[o].total_amount =
                 SumOver([i \in DOMAIN cart |->
                             IF cart[i].product.id \in DOMAIN prods
                             THEN prods[cart[i].product.id].price * cart[i].quantity
                             ELSE 0],
                         Len(cart))

\* C13: deleting a product that an order item references leaves the product
\* row in the store.
C13_ReferencedProductKept ==
    (/\ last.op = "deleteProduct"
     /\ \E i \in DOMAIN last.pre.order_items :
           last.pre.order_items[i].product_id = last.req) =>
        last.req \in DOMAIN products

\* the order items of order o in the table items, in insertion order
ItemRowsOf(o, items) == SelectSeq(items, LAMBDA row : row.order_id = o)

\* C14: no operation changes the order items of an existing order, and the
\* sum of unit_price * quantity over the items of an order stays equal to
\* the order's total_amount.
C14_OrderItemsImmutable ==
    /\ \A o \in DOMAIN last.pre.orders :
          ItemRowsOf(o, order_items) = ItemRowsOf(o, last.pre.order_items)
    /\ \A o \in DOMAIN orders :
          ItemsOf(o) # {} => ItemsTotal(o) = orders[o].total_amount

\* C15: for an order in status pending, processing or shipped some operation
\* of the system sets its status to cancelled.
C15_CancelOffered ==
    \A o \in DOMAIN orders :
        orders[o].status \in {"pending", "processing", "shipped"} =>
            ENABLED (Next /\ orders'[o].status = "cancelled")

\* no operation of the workflow ever stores the status cancelled
C15_NeverCancelled == \A o \in DOMAIN orders : orders[o].status # "cancelled"

\* C16: login returns a token and the user record only if the user row of
\* the email has status approved and the password verifies against its
\* hash; a registered user still pending, or rejected, gets neither.
C16_OnlyApprovedLogin ==
    (last.op = "login" /\ (last.status = 200 \/ last.body = "user and token")) =>
        \E i \in DOMAIN last.pre.users :
            /\ last.pre.users[i].email = last.req.email
            /\ last.pre.users[i].status = "approved"
            /\ last.pre.users[i].password_hash = hash_password(last.req.password)

\* a user created by the register route logged in after an approval
C16_Witness ==
    /\ last.op = "login" /\ last.status = 200
    /\ \E i \in DOMAIN users :
          /\ i > Len(InitialUsers)
          /\ users[i].email = last.req.email
          /\ users[i].role = "customer"

\* the registration names an email that a row of users has already
EmailTaken ==
    /\ last.op = "register"
    /\ last.req.complete
    /\ \E i \in DOMAIN last.pre.users : last.pre.users[i].email = last.req.email

C18_BlankContentRejected ==
    (last.op = "chat" /\ Trim(last.req.content) = <<>>) =>
        /\ last.status >= 400
        /\ chat_messages = last.pre.chat_messages

\* no two entries of a local message list have the same message id
NoDuplicateIds(messages) ==
    \A i, j \in DOMAIN messages : messages[i].id = messages[j].id => i = j

\* C19: after any sequence of conversation loads and INSERT / UPDATE events,
\* also events delivered again or for messages already loaded, the message
\* list of the admin view and of the customer view holds no message id twice.
C19_LocalListHasNoDuplicates ==
    /\ NoDuplicateIds(adminChat.messages)
    /\ NoDuplicateIds(customerChat.messages)

\* the INSERT event of a message the admin list already held was delivered
C19_Witness ==
    /\ last.op = "event"
    /\ last.req.view = "admin"
    /\ last.req.kind = "INSERT"
    /\ last.req.held
    /\ adminChat.messages # <<>>

\* C20: the admin view holds at most one live subscription, the one of the
\* selected thread, and none once the page is left; an event is applied to
\* the list only for the thread that is selected (the customer view: only
\* its own channel, none once the page is left).
C20_OneLiveSubscription ==
    /\ Cardinality(adminChat.channels) <= 1
    /\ adminChat.channels \subseteq {adminChat.selectedCustomerId}
    /\ ~adminChat.mounted => adminChat.channels = {}
    /\ customerChat.channels \subseteq {Shopper}
    /\ ~customerChat.mounted => customerChat.channels = {}
    /\ (last.op = "event" /\ last.req.view = "admin") =>
          last.req.customer_id = adminChat.selectedCustomerId

\* after a switch from one thread to another (the load of the first is
\* still in flight) an event of the selected thread was applied
C20_Witness ==
    /\ last.op = "event"
    /\ last.req.view = "admin"
    /\ adminChat.channels = {adminChat.selectedCustomerId}
    /\ \E load \in adminChat.loading : load.customerId # adminChat.selectedCustomerId

\* the position of the latest message of the thread of customerId
ThreadLatest(customerId) ==
    CHOOSE i \in DOMAIN chat_messages :
        /\ chat_messages[i].customer_id = customerId
        /\ \A j \in DOMAIN chat_messages :
              chat_messages[j].customer_id = customerId => j <= i

\* C21: after loadThreads(0), loadThreads(1), ... the accumulated thread id
\* list holds no customer id twice and is ordered by the latest message of
\* each thread, the most recent first, on the view path and on the fallback
\* path.  Violated on the fallback path: page 1 scans messages from position
\* THREAD_PAGE_SIZE on and lists again a customer of page 0.
C21_ThreadIdsDistinctLatestFirst ==
    \A i, j \in DOMAIN adminChat.threadIds :
        i < j => /\ adminChat.threadIds[i] # adminChat.threadIds[j]
                 /\ ThreadLatest(adminChat.threadIds[i])
                      > ThreadLatest(adminChat.threadIds[j])

C23_WritesAuthorized ==
    /\ (last.op = "chat" /\ Len(chat_messages) > Len(last.pre.chat_messages)) =>
          LET row == chat_messages[Len(chat_messages)] IN
          /\ row.sender_role = "admin" => last.req.caller = ChatAdmin
          /\ row.sender_role = "customer" =>
                /\ last.req.caller \in ChatCustomers
                /\ row.sender_id = last.req.caller
                /\ row.customer_id = last.req.caller
    /\ (last.op = "checkout" /\ Len(orders) > Len(last.pre.orders)) =>
          orders[Len(orders)].customer_id = last.req.caller

\* C24: whenever the webhook handler has moved an order to processing, a
\* payment row with status completed exists for that order.  Violated: the
\* handler updates the order whatever payment_status the session has, and
\* whether or not the payment insert succeeds.
C24_ProcessingHasCompletedPayment ==
    last.op = "webhook" =>
        \A o \in DOMAIN orders :
            (last.pre.orders[o].status # "processing" /\ orders[o].status = "processing") =>
                \E i \in PaymentsOf(o) : payments[i].status = "completed"

\* the payment of pending order o was confirmed
PaymentConfirmed(o) ==
    /\ o \in DOMAIN orders
    /\ orders[o].status = "pending"
    /\ \E s \in DOMAIN sessions :
          sessions[s].order_id = o /\ sessions[s].payment_status = "paid"

\* C25: with Stripe delivering a payment confirmation again until it gets a
\* 2xx answer, and the store failing only finitely often, every pending
\* order whose payment was confirmed eventually is in status processing and
\* eventually has a completed payment row.  Violated: a delivery during
\* which a write fails is answered 200, so no further delivery comes.
C25_ConfirmedOrderEventuallyProcessed ==
    \A o \in 1..MaxOrders :
        /\ PaymentConfirmed(o) ~> (o \in DOMAIN orders /\ orders[o].status = "processing")
        /\ PaymentConfirmed(o) ~> (\E i \in PaymentsOf(o) : payments[i].status = "completed")

\* the ids of the messages of thread customerId in a local list
IdsHeld(messages, customerId) ==
    {messages[i].id : i \in {j \in DOMAIN messages : messages[j].customer_id = customerId}}

\* C26: no message is lost by the race between the initial load and the
\* live subscription: once the load has completed and the delivered events
\* are applied, the local list holds every stored message of the thread.
\* Stated of each step that leaves a page open on the same thread with no
\* load in flight: a message the list held (rows are never deleted) is
\* still in the list.  Violated: the response of the load replaces the list
\* by the rows read before an event arrived.
C26_NoMessageLostByLoad ==
    [][/\ (/\ adminChat.mounted /\ adminChat'.mounted
            /\ adminChat'.selectedCustomerId = adminChat.selectedCustomerId
            /\ adminChat'.loading = {}) =>
               IdsHeld(adminChat.messages, adminChat.selectedCustomerId)
                  \subseteq IdsHeld(adminChat'.messages, adminChat.selectedCustomerId)
       /\ (/\ customerChat.mounted /\ customerChat'.mounted
            /\ customerChat'.loading = {}) =>
               IdsHeld(customerChat.messages, Shopper)
                  \subseteq IdsHeld(customerChat'.messages, Shopper)]_vars

\* C27: the conversation pane of the admin shows the selected thread: once
\* no load is in flight, every message of the local list has the selected
\* customer id, in whatever order the responses of loadConversation
\* arrive.  Violated: a response is applied without a look at the thread
\* selected by then.
C27_PaneShowsSelectedThread ==
    (adminChat.mounted /\ adminChat.loading = {}) =>
        \A i \in DOMAIN adminChat.messages :
            adminChat.messages[i].customer_id = adminChat.selectedCustomerId

\* C28: of two registration requests with the same email that both pass
\* the existence check before either inserts, at most one creates a row
\* and the other is answered 409.  So, with no store call failing: no
\* email has two rows, and a complete request whose email has a row when
\* it is answered gets 409.  Violated: the request that inserts second is
\* answered 500.
C28_ConcurrentDuplicateConflict ==
    /\ \A i, j \in DOMAIN users : users[i].email = users[j].email => i = j
    /\ (/\ last.op = "register" /\ last.errors = {} /\ last.req.complete
        /\ \E i \in DOMAIN last.pre.users : last.pre.users[i].email = last.req.email) =>
          last.status = 409

\* C29: a login with a wrong password gets the same answer whether or not
\* the email has a row and whatever the status of that row.  An email
\* without a row is answered 401 'Invalid email or password', so every
\* login that has no row with this email and this password must get that
\* answer.  Violated: the status of the row is checked, and answered 403,
\* before the password is.
C29_WrongPasswordUniform ==
    (/\ last.op = "login"
     /\ last.req.email # "" /\ last.req.password # ""
     /\ ~\E i \in DOMAIN last.pre.users :
            /\ last.pre.users[i].email = last.req.email
            /\ last.pre.users[i].password_hash = hash_password(last.req.password)) =>
        (last.status = 401 /\ last.body = "Invalid email or password")

\* C30: after any sequence of addToCart, updateQuantity and removeItem
\* from the empty cart, the cart has at most one entry per product id and
\* every entry has quantity >= 1; addToCart of a product in the cart adds
\* exactly one to the quantity of its entry and leaves the other entries
\* as they are; updateQuantity with a quantity below 1 leaves the cart as
\* it is.
C30_CartWellFormed ==
    [][/\ \A i, j \in DOMAIN cart' : cart'[i].product.id = cart'[j].product.id => i = j
       /\ \A i \in DOMAIN cart' : cart'[i].quantity >= 1
       /\ (/\ last'.op = "addToCart"
           /\ \E i \in DOMAIN cart : cart[i].product.id = last'.req) =>
              /\ DOMAIN cart' = DOMAIN cart
              /\ \A i \in DOMAIN cart :
                    cart'[i] = IF cart[i].product.id = last'.req
                               THEN [cart[i] EXCEPT !.quantity = @ + 1] ELSE cart[i]
       /\ (last'.op = "updateQuantity" /\ last'.req.newQuantity < 1) => cart' = cart]_vars

\* addToCart of a product whose entry stands beside another entry
C30_Witness ==
    /\ last.op = "addToCart"
    /\ Len(cart) = 2
    /\ \E i \in DOMAIN cart : cart[i].product.id = last.req /\ cart[i].quantity = 2

====
